---- MODULE Spec2Model ----
(***************************************************************************)
(* A model of src/app.py, the district-intervention dashboard script.      *)
(*                                                                         *)
(* The script runs top to bottom: it loads dashboard_data.csv, reads the   *)
(* district selection from the sidebar, slices the table and then derives  *)
(* the top metrics, the state snapshot, the top-support bar, the category  *)
(* pie, the Sankey flow and the two heatmaps.  Each of these sections is   *)
(* one action; a section that raises an uncaught exception ends the run    *)
(* (pc = "crashed"), st.stop() ends it with pc = "stopped".                *)
(*                                                                         *)
(* Text values are modelled by integers whose order is the lexical order   *)
(* of the strings they stand for.  A missing CSV cell is NaN.              *)
(***************************************************************************)
EXTENDS Integers, Sequences, FiniteSets, TLC

\* ------------------------------------------------------------------ bounds
MaxRows == 2
NumLabels == 2
MaxCount == 1
MaxAbsent == 1
MaxSum == 1

\* ------------------------------------------------------- program constants
\* n of nlargest(10) at lines 151 and 240
TopN == 10
\* one key more than nlargest keeps
NumKeys == TopN + 1
\* fill_value=0 of pivot_table at lines 223 and 243
fill_value == 0

\* ------------------------------------------------------------- value space
\* what read_csv yields for an empty cell
NaN == -1
\* the text 'nan' that astype(str) makes of NaN; it sorts after the labels
NanStr == NumLabels + 1
Labels == 1..NumLabels
None == <<>>
Some(v) == <<v>>

Columns ==
    {"district_name", "block_name", "lcat", "GETM", "categoryofsupport",
     "typeofsupport", "Beneficiary_Count"}

\* ---------------------------------------------------------- small helpers
Min(S) == CHOOSE x \in S : \A y \in S : x <= y

RECURSIVE SortedSeq(_)
\* sorted(list(set)): the elements of S in ascending order
SortedSeq(S) ==
    IF S = {} THEN <<>>
    ELSE LET m == Min(S) IN <<m>> \o SortedSeq(S \ {m})

Range(s) == {s[i] : i \in 1..Len(s)}

\* a measure cell as Series.sum() counts it: NaN is skipped (skipna)
Num(v) == IF v = NaN THEN 0 ELSE v

RECURSIVE SumCol(_, _)
\* Series.sum() of column c over the rows
SumCol(rows, c) ==
    IF rows = <<>> THEN 0
    ELSE Num(Head(rows)[c]) + SumCol(Tail(rows), c)

RECURSIVE SumOf(_)
\* the sum of the "sum" fields of a sequence of grouped entries
SumOf(entries) ==
    IF entries = <<>> THEN 0
    ELSE Head(entries).sum + SumOf(Tail(entries))

\* ------------------------------------------------------------- pandas ops
\* variant: a load that leaves the cells as read_csv gave them
AsTypeStrKeepNaN(v) == v
\* Series.astype(str): text stays, NaN becomes the text 'nan'
AsTypeStr(v) == IF v = NaN THEN NanStr ELSE v

\* Series.unique() / nunique(): distinct values (nunique leaves NaN out)
Unique(rows, c) == {rows[i][c] : i \in 1..Len(rows)}
NUnique(rows, c) == Cardinality(Unique(rows, c) \ {NaN})

\* df[df[c].isin(values)]
IsIn(rows, c, values) == SelectSeq(rows, LAMBDA r : r[c] \in values)

\* groupby(c)['Beneficiary_Count'].sum(): one entry per distinct key in
\* ascending key order; rows whose key is NaN are left out (dropna=True)
GroupSum(rows, c) ==
    LET keys == SortedSeq(Unique(rows, c) \ {NaN})
    IN  [i \in 1..Len(keys) |->
            [key |-> keys[i],
             sum |-> SumCol(IsIn(rows, c, {keys[i]}), "Beneficiary_Count")]]

RECURSIVE Flatten(_)
Flatten(ss) == IF ss = <<>> THEN <<>> ELSE Head(ss) \o Flatten(Tail(ss))

\* variant: .size() for .sum(), the number of rows of each pair
GroupSum2Size(rows, c1, c2) ==
    LET keys1 == SortedSeq(Unique(rows, c1) \ {NaN})
        Sub(k1) ==
            LET rs == IsIn(rows, c1, {k1})
                keys2 == SortedSeq(Unique(rs, c2) \ {NaN})
            IN  [j \in 1..Len(keys2) |->
                    [k1 |-> k1, k2 |-> keys2[j],
                     sum |-> Len(IsIn(rs, c2, {keys2[j]}))]]
    IN  Flatten([i \in 1..Len(keys1) |-> Sub(keys1[i])])
\* groupby([c1, c2])['Beneficiary_Count'].sum().reset_index(): one entry per
\* observed (c1, c2) pair, ordered by c1 then c2; NaN keys are left out
GroupSum2(rows, c1, c2) ==
    LET keys1 == SortedSeq(Unique(rows, c1) \ {NaN})
        Sub(k1) ==
            LET rs == IsIn(rows, c1, {k1})
                keys2 == SortedSeq(Unique(rs, c2) \ {NaN})
            IN  [j \in 1..Len(keys2) |->
                    [k1 |-> k1, k2 |-> keys2[j],
                     sum |-> SumCol(IsIn(rs, c2, {keys2[j]}), "Beneficiary_Count")]]
    IN  Flatten([i \in 1..Len(keys1) |-> Sub(keys1[i])])

\* Series.idxmax(): the key of the first entry with the largest sum; on an
\* empty Series pandas raises ValueError, which app.py does not catch
IdxMax(agg) ==
    IF agg = <<>> THEN [exc |-> "ValueError", key |-> NaN]
    ELSE LET i == CHOOSE i \in 1..Len(agg) :
                    /\ \A j \in 1..Len(agg) : agg[j].sum <= agg[i].sum
                    /\ \A j \in 1..(i-1) : agg[j].sum < agg[i].sum
         IN  [exc |-> "none", key |-> agg[i].key]

\* the sequence s without its i-th element
RemoveAt(s, i) == [j \in 1..(Len(s)-1) |-> IF j < i THEN s[j] ELSE s[j+1]]

RECURSIVE NLargestKeepLast(_, _)
\* variant: keep='last', equal sums in reverse order of occurrence
NLargestKeepLast(agg, n) ==
    IF n = 0 \/ agg = <<>> THEN <<>>
    ELSE LET i == CHOOSE i \in 1..Len(agg) :
                    /\ \A j \in 1..Len(agg) : agg[j].sum <= agg[i].sum
                    /\ \A j \in (i+1)..Len(agg) : agg[j].sum < agg[i].sum
         IN  <<agg[i]>> \o NLargestKeepLast(RemoveAt(agg, i), n - 1)

RECURSIVE PickLargest(_, _)
\* the n largest entries in descending order of sum, equal sums in their
\* order of occurrence (keep='first'); all entries when there are fewer than n
PickLargest(agg, n) ==
    IF n = 0 \/ agg = <<>> THEN <<>>
    ELSE LET i == CHOOSE i \in 1..Len(agg) :
                    /\ \A j \in 1..Len(agg) : agg[j].sum <= agg[i].sum
                    /\ \A j \in 1..(i-1) : agg[j].sum < agg[i].sum
         IN  <<agg[i]>> \o PickLargest(RemoveAt(agg, i), n - 1)

\* Series.nlargest(n)
NLargest(agg, n) == PickLargest(agg, n)

RECURSIVE AscendingOrders(_)
\* the orders sort_values('Beneficiary_Count') may leave a set of entries in:
\* ascending by sum; the default sort is not stable, so entries of equal sum
\* may come out in any order
AscendingOrders(S) ==
    IF S = {} THEN {<<>>}
    ELSE UNION {{<<e>> \o t : t \in AscendingOrders(S \ {e})} :
                    e \in {x \in S : \A y \in S : x.sum <= y.sum}}
SortValues(entries) == AscendingOrders(Range(entries))

\* variant: no fill_value, cells only for the observed (r, c) pairs
PivotTableNoFill(rows, r, c) ==
    LET g == GroupSum2(rows, r, c)
        index == SortedSeq({g[i].k1 : i \in 1..Len(g)})
        columns == SortedSeq({g[i].k2 : i \in 1..Len(g)})
    IN  [index |-> index, columns |-> columns,
         cell |-> [p \in {<<g[i].k1, g[i].k2>> : i \in 1..Len(g)} |->
                    LET i == CHOOSE i \in 1..Len(g) : g[i].k1 = p[1] /\ g[i].k2 = p[2]
                    IN  g[i].sum]]
\* pivot_table(index=r, columns=c, values='Beneficiary_Count', aggfunc='sum',
\* fill_value=0): the grouped sums of the observed (r, c) pairs spread over
\* the dense matrix of observed row keys x observed column keys
PivotTable(rows, r, c) ==
    LET g == GroupSum2(rows, r, c)
        index == SortedSeq({g[i].k1 : i \in 1..Len(g)})
        columns == SortedSeq({g[i].k2 : i \in 1..Len(g)})
    IN  [index |-> index, columns |-> columns,
         cell |-> [p \in Range(index) \X Range(columns) |->
                    IF \E i \in 1..Len(g) : g[i].k1 = p[1] /\ g[i].k2 = p[2]
                    THEN LET i == CHOOSE i \in 1..Len(g) : g[i].k1 = p[1] /\ g[i].k2 = p[2]
                         IN  g[i].sum
                    ELSE fill_value]]

\* {label: i for i, label in enumerate(all_labels)}: a dict keeps one index
\* per label, the last one enumerated (indices count from 0)
LabelMap(all_labels) ==
    [l \in Range(all_labels) |->
        (CHOOSE i \in 1..Len(all_labels) :
            /\ all_labels[i] = l
            /\ \A j \in (i+1)..Len(all_labels) : all_labels[j] # l) - 1]

\* lines 186-195: the node list and the edge lists of the Sankey figure
SankeyFlow(rows) ==
    LET sankey_data == GroupSum2(rows, "lcat", "GETM")
        lcat_labels == SortedSeq({sankey_data[i].k1 : i \in 1..Len(sankey_data)})
        getm_labels == SortedSeq({sankey_data[i].k2 : i \in 1..Len(sankey_data)})
        all_labels == lcat_labels \o getm_labels
        label_map == LabelMap(all_labels)
    IN  [lcat_labels |-> lcat_labels,
         getm_labels |-> getm_labels,
         all_labels |-> all_labels,
         sources |-> [i \in 1..Len(sankey_data) |-> label_map[sankey_data[i].k1]],
         targets |-> [i \in 1..Len(sankey_data) |-> label_map[sankey_data[i].k2]],
         values |-> [i \in 1..Len(sankey_data) |-> sankey_data[i].sum]]

\* --------------------------------------------------------------- the state
VARIABLES
    pc,                  \* the section of the script that runs next
    csv,                 \* dashboard_data.csv on disk
    df,                  \* the table load_data() returned
    selected_districts,  \* the sidebar's selection
    df_filtered,         \* line 107
    total_int, top_lcat, top_pillar,   \* lines 114-116
    snapshot,            \* lines 135-142
    top_supp,            \* line 151
    cat_data,            \* line 167
    sankey,              \* lines 186-195
    hm_data1,            \* line 223
    hm_data2,            \* line 243
    shown,               \* the st.error / st.warning / st.info messages of the run
    agg, top_n, best_key, rpc   \* the ranking operations on their own

derived == <<selected_districts, df_filtered, total_int, top_lcat, top_pillar,
             snapshot, top_supp, cat_data, sankey, hm_data1, hm_data2>>
ranking == <<agg, top_n, best_key, rpc>>
vars == <<pc, csv, df, derived, shown, ranking>>

\* the text "N/A" of lines 115-116
NA == 0

\* ---------------------------------------------------------------- inputs
CellValues(c) ==
    IF c = "Beneficiary_Count" THEN (1..MaxCount) \cup {NaN} ELSE Labels \cup {NaN}

\* the rows of a file with columns cols whose cells vary in the columns of
\* vary and hold the first value elsewhere; a column the file lacks has no
\* cells (NaN stands in and is never read)
CsvRows(cols, vary) ==
    {[c \in Columns |-> IF c \notin cols THEN NaN ELSE IF c \in vary THEN f[c] ELSE 1] :
        f \in {g \in [vary -> (1..MaxCount) \cup Labels \cup {NaN}] :
                    \A c \in vary : g[c] \in CellValues(c)}}

ColumnOrder ==
    <<"district_name", "block_name", "lcat", "GETM", "categoryofsupport",
      "typeofsupport", "Beneficiary_Count">>

RECURSIVE RowCode(_, _)
\* a number that orders the rows: the cells read as digits, first column first
RowCode(r, i) ==
    IF i > Len(ColumnOrder) THEN 0
    ELSE (r[ColumnOrder[i]] + 1) + (NumLabels + MaxCount + 2) * RowCode(r, i + 1)

\* Every derivation of the script groups and sums, so the order of the rows
\* of the file reaches no result: the rows are taken in one order
InOrder(t) == \A i \in 1..(Len(t)-1) : RowCode(t[i], 1) <= RowCode(t[i+1], 1)

\* the groups of columns whose cells vary together
Slices ==
    {{"lcat", "GETM", "Beneficiary_Count"},
     {"district_name", "GETM", "Beneficiary_Count"},
     {"typeofsupport", "categoryofsupport", "Beneficiary_Count"},
     {"district_name", "lcat"},
     {"district_name", "block_name"}}

AbsentSets == {A \in SUBSET Columns : A # {} /\ Cardinality(A) <= MaxAbsent}

\* dashboard_data.csv is absent, or malformed, or holds a table of at most
\* MaxRows rows: one with every column, or one that lacks some columns
IsCsvFile(file) ==
    \/ file = [status |-> "absent", cols |-> {}, rows |-> <<>>]
    \/ file = [status |-> "malformed", cols |-> {}, rows |-> <<>>]
    \/ \E v \in Slices, n \in 0..MaxRows :
            \E t \in [1..n -> CsvRows(Columns, v)] :
                /\ InOrder(t)
                /\ file = [status |-> "ok", cols |-> Columns, rows |-> t]
    \/ \E A \in AbsentSets, n \in 0..MaxRows :
            \E t \in [1..n -> CsvRows(Columns \ A, {"district_name", "Beneficiary_Count"})] :
                /\ InOrder(t)
                /\ file = [status |-> "ok", cols |-> Columns \ A, rows |-> t]

\* the entries groupby(...).sum() can give: distinct keys in ascending order
IsAggregation(a) ==
    \E k \in 0..NumKeys :
        \E f \in [1..k -> 0..MaxSum] :
            a = [i \in 1..k |-> [key |-> i, sum |-> f[i]]]

Unset ==
    /\ selected_districts = None /\ df_filtered = None
    /\ total_int = None /\ top_lcat = None /\ top_pillar = None
    /\ snapshot = None /\ top_supp = None /\ cat_data = None
    /\ sankey = None /\ hm_data1 = None /\ hm_data2 = None

Init ==
    /\ pc = "load"
    /\ IsCsvFile(csv)
    /\ df = None
    /\ Unset
    /\ shown = {}
    /\ agg = <<>> /\ top_n = None /\ best_key = None /\ rpc = "off"

\* ------------------------------------------------------------ lines 64-80
\* load_data(): FileNotFoundError is caught and gives None; any other error
\* of read_csv (a malformed file) is not caught; a table read has its lcat,
\* GETM and district_name columns, where present, cast to str
load_data(file) ==
    IF file.status = "absent" THEN [exc |-> "none", df |-> None]
    ELSE IF file.status = "malformed" THEN [exc |-> "ParserError", df |-> None]
    ELSE [exc |-> "none",
          df |-> Some([cols |-> file.cols,
                       rows |-> [i \in 1..Len(file.rows) |->
                                    [c \in Columns |->
                                        IF c \in {"lcat", "GETM", "district_name"} /\ c \in file.cols
                                        THEN AsTypeStr(file.rows[i][c])
                                        ELSE file.rows[i][c]]]])]

LoadData ==
    /\ pc = "load"
    /\ LET r == load_data(csv)
       IN  IF r.exc # "none"
           THEN /\ pc' = "crashed"
                /\ UNCHANGED <<df, shown>>
           ELSE IF r.df = None
           THEN /\ shown' = shown \cup {"error: Data file 'dashboard_data.csv' not found."}
                /\ pc' = "stopped"
                /\ UNCHANGED df
           ELSE /\ df' = r.df
                /\ pc' = "sidebar"
                /\ UNCHANGED shown
    /\ UNCHANGED <<csv, derived, ranking>>

\* ------------------------------------------------------------ lines 83-100
\* variant: no guard on the selection
NoSelectionNever(selection) == FALSE
\* if not selected_districts
NoSelection(selection) == selection = {}

SidebarFilter ==
    /\ pc = "sidebar"
    /\ IF "district_name" \notin df[1].cols
       THEN /\ pc' = "crashed"
            /\ UNCHANGED <<selected_districts, shown>>
       ELSE LET all_districts == SortedSeq(Unique(df[1].rows, "district_name"))
            IN  \E select_all \in BOOLEAN, choice \in SUBSET Range(all_districts) :
                    LET selection == IF select_all THEN Range(all_districts) ELSE choice
                    IN  /\ selected_districts' = Some(selection)
                        /\ IF NoSelection(selection)
                           THEN /\ shown' = shown \cup {"warning: Please select at least one district."}
                                /\ pc' = "stopped"
                           ELSE /\ pc' = "metrics"
                                /\ UNCHANGED shown
    /\ UNCHANGED <<csv, df, df_filtered, total_int, top_lcat, top_pillar, snapshot,
                   top_supp, cat_data, sankey, hm_data1, hm_data2, ranking>>

\* ----------------------------------------------------------- lines 104-116
\* groupby(c)['Beneficiary_Count'].sum().idxmax() if c in columns else "N/A"
TopKey(cols, rows, c) ==
    IF c \in cols THEN IdxMax(GroupSum(rows, c)) ELSE [exc |-> "none", key |-> NA]

TopMetrics ==
    /\ pc = "metrics"
    /\ LET rows == IsIn(df[1].rows, "district_name", selected_districts[1])
           lcat == TopKey(df[1].cols, rows, "lcat")
           getm == TopKey(df[1].cols, rows, "GETM")
       IN  /\ df_filtered' = Some(rows)
           /\ IF "Beneficiary_Count" \notin df[1].cols
              THEN /\ pc' = "crashed"
                   /\ UNCHANGED <<total_int, top_lcat, top_pillar>>
              ELSE /\ total_int' = Some(SumCol(rows, "Beneficiary_Count"))
                   /\ IF lcat.exc # "none"
                      THEN /\ pc' = "crashed"
                           /\ UNCHANGED <<top_lcat, top_pillar>>
                      ELSE /\ top_lcat' = Some(lcat.key)
                           /\ IF getm.exc # "none"
                              THEN /\ pc' = "crashed"
                                   /\ UNCHANGED top_pillar
                              ELSE /\ top_pillar' = Some(getm.key)
                                   /\ pc' = "snapshot"
    /\ UNCHANGED <<csv, df, selected_districts, snapshot, top_supp, cat_data,
                   sankey, hm_data1, hm_data2, shown, ranking>>

\* ----------------------------------------------------------- lines 135-142
\* total_int/state_total divides numpy numbers: a zero denominator gives nan
\* with a warning and no exception, so the quotient is kept as the pair
StateSnapshot ==
    /\ pc = "snapshot"
    /\ LET state_total == SumCol(df[1].rows, "Beneficiary_Count")
           state_districts == NUnique(df[1].rows, "district_name")
           state_blocks == IF "block_name" \in df[1].cols
                           THEN NUnique(df[1].rows, "block_name") ELSE 0
       IN  snapshot' = Some([state_total |-> state_total,
                             state_districts |-> state_districts,
                             state_blocks |-> state_blocks,
                             selection_vs_state |-> <<total_int[1], state_total>>])
    /\ pc' = "top_supp"
    /\ UNCHANGED <<csv, df, selected_districts, df_filtered, total_int, top_lcat,
                   top_pillar, top_supp, cat_data, sankey, hm_data1, hm_data2,
                   shown, ranking>>

\* ----------------------------------------------------------- lines 149-162
\* groupby('typeofsupport') is not guarded: without the column it raises KeyError
TopSupport ==
    /\ pc = "top_supp"
    /\ IF "typeofsupport" \notin df[1].cols
       THEN /\ pc' = "crashed"
            /\ UNCHANGED top_supp
       ELSE /\ \E s \in SortValues(NLargest(GroupSum(df_filtered[1], "typeofsupport"), TopN)) :
                    top_supp' = Some(s)
            /\ pc' = "cat_pie"
    /\ UNCHANGED <<csv, df, selected_districts, df_filtered, total_int, top_lcat,
                   top_pillar, snapshot, cat_data, sankey, hm_data1, hm_data2,
                   shown, ranking>>

\* ----------------------------------------------------------- lines 164-178
CategoryPie ==
    /\ pc = "cat_pie"
    /\ IF "categoryofsupport" \in df[1].cols
       THEN /\ cat_data' = Some(GroupSum(df_filtered[1], "categoryofsupport"))
            /\ UNCHANGED shown
       ELSE /\ shown' = shown \cup {"info: Category of support data missing."}
            /\ UNCHANGED cat_data
    /\ pc' = "sankey"
    /\ UNCHANGED <<csv, df, selected_districts, df_filtered, total_int, top_lcat,
                   top_pillar, snapshot, top_supp, sankey, hm_data1, hm_data2, ranking>>

\* ----------------------------------------------------------- lines 181-214
SankeyTab ==
    /\ pc = "sankey"
    /\ IF "lcat" \in df[1].cols /\ "GETM" \in df[1].cols
       THEN /\ sankey' = Some(SankeyFlow(df_filtered[1]))
            /\ UNCHANGED shown
       ELSE /\ shown' = shown \cup {"warning: Data missing for Sankey flow."}
            /\ UNCHANGED sankey
    /\ pc' = "heatmap1"
    /\ UNCHANGED <<csv, df, selected_districts, df_filtered, total_int, top_lcat,
                   top_pillar, snapshot, top_supp, cat_data, hm_data1, hm_data2, ranking>>

\* ----------------------------------------------------------- lines 220-231
Heatmap1 ==
    /\ pc = "heatmap1"
    /\ IF "GETM" \in df[1].cols
       THEN hm_data1' = Some(PivotTable(df_filtered[1], "district_name", "GETM"))
       ELSE UNCHANGED hm_data1
    /\ pc' = "heatmap2"
    /\ UNCHANGED <<csv, df, selected_districts, df_filtered, total_int, top_lcat,
                   top_pillar, snapshot, top_supp, cat_data, sankey, hm_data2,
                   shown, ranking>>

\* ----------------------------------------------------------- lines 236-252
Heatmap2 ==
    /\ pc = "heatmap2"
    /\ IF "typeofsupport" \notin df[1].cols
       THEN /\ pc' = "crashed"
            /\ UNCHANGED hm_data2
       ELSE LET top10 == NLargest(GroupSum(df_filtered[1], "typeofsupport"), TopN)
                top_10_types == {top10[i].key : i \in 1..Len(top10)}
                df_top_10 == IsIn(df_filtered[1], "typeofsupport", top_10_types)
            IN  /\ hm_data2' = Some(PivotTable(df_top_10, "district_name", "typeofsupport"))
                /\ pc' = "done"
    /\ UNCHANGED <<csv, df, selected_districts, df_filtered, total_int, top_lcat,
                   top_pillar, snapshot, top_supp, cat_data, sankey, hm_data1,
                   shown, ranking>>

\* a widget interaction or a reload runs the script again from the top
Rerun ==
    /\ pc \in {"done", "stopped", "crashed"}
    /\ pc' = "load"
    /\ df' = None
    /\ selected_districts' = None /\ df_filtered' = None
    /\ total_int' = None /\ top_lcat' = None /\ top_pillar' = None
    /\ snapshot' = None /\ top_supp' = None /\ cat_data' = None
    /\ sankey' = None /\ hm_data1' = None /\ hm_data2' = None
    /\ shown' = {}
    /\ UNCHANGED <<csv, ranking>>

Next ==
    \/ LoadData
    \/ SidebarFilter
    \/ TopMetrics
    \/ StateSnapshot
    \/ TopSupport
    \/ CategoryPie
    \/ SankeyTab
    \/ Heatmap1
    \/ Heatmap2
    \/ Rerun

Spec == Init /\ [][Next]_vars

\* ------------------------------------------- the ranking operations alone
RankInit ==
    /\ pc = "off"
    /\ csv = [status |-> "absent", cols |-> {}, rows |-> <<>>]
    /\ df = None
    /\ Unset
    /\ shown = {}
    /\ IsAggregation(agg)
    /\ top_n = None
    /\ best_key = None
    /\ rpc = "nlargest"

\* .nlargest(10) of lines 151 and 240 applied to agg
ApplyNLargest ==
    /\ rpc = "nlargest"
    /\ top_n' = Some(NLargest(agg, TopN))
    /\ rpc' = "idxmax"
    /\ UNCHANGED <<pc, csv, df, derived, shown, agg, best_key>>

\* .idxmax() of lines 115-116 applied to agg; as there, nothing catches what
\* it raises
ApplyIdxMax ==
    /\ rpc = "idxmax"
    /\ LET r == IdxMax(agg)
       IN  IF r.exc # "none"
           THEN /\ rpc' = "crashed"
                /\ UNCHANGED best_key
           ELSE /\ best_key' = Some(r.key)
                /\ rpc' = "done"
    /\ UNCHANGED <<pc, csv, df, derived, shown, agg, top_n>>

RankNext == ApplyNLargest \/ ApplyIdxMax

RankSpec == RankInit /\ [][RankNext]_vars

\* ================================================================ properties
\* what the properties compare the results with, written from the table
\* and the selection directly

\* the rows of the loaded table whose district_name is selected
Matching == SelectSeq(df[1].rows, LAMBDA r : r["district_name"] \in selected_districts[1])

RECURSIVE Total(_)
\* the sum of Beneficiary_Count over rows, a missing count as 0
Total(rows) ==
    IF rows = <<>> THEN 0
    ELSE (IF Head(rows)["Beneficiary_Count"] = NaN THEN 0
          ELSE Head(rows)["Beneficiary_Count"]) + Total(Tail(rows))

RECURSIVE SumInts(_)
SumInts(s) == IF s = <<>> THEN 0 ELSE Head(s) + SumInts(Tail(s))

\* C1: in the flow graph every edge's source index is a source-partition node
\* (below the number of distinct lcat values) and its target index a
\* target-partition node (at or above it), so no edge is a self-loop, also
\* when a value is both an lcat value and a GETM value.
C1_EdgesCrossPartitions ==
    sankey # None =>
        LET g == sankey[1]
            n == Len(g.lcat_labels)
        IN  \A i \in 1..Len(g.sources) :
                /\ g.sources[i] < n
                /\ g.targets[i] >= n
                /\ g.sources[i] # g.targets[i]

\* C2: the weights of the edges of the flow graph, one per grouped
\* (lcat, GETM) pair, add up to the sum of Beneficiary_Count over the rows of
\* the filtered table.
C2_FlowConservation ==
    sankey # None =>
        /\ SumInts(sankey[1].values) = Total(Matching)
        /\ Len(sankey[1].values) =
                Cardinality({<<Matching[i]["lcat"], Matching[i]["GETM"]>> : i \in 1..Len(Matching)})

\* a flow of several edges over rows of which one has no count
C2_Witness ==
    /\ sankey # None
    /\ Len(sankey[1].values) >= 2
    /\ Total(Matching) >= 1
    /\ \E i \in 1..Len(Matching) : Matching[i]["Beneficiary_Count"] = NaN

\* C3: the sums of the single-key group-sums of the filtered table (per
\* categoryofsupport, per typeofsupport) add up to the sum of
\* Beneficiary_Count over the rows of the selected districts, one entry per
\* distinct key.
C3_GroupSumConservation ==
    /\ cat_data # None =>
            /\ SumOf(cat_data[1]) = Total(Matching)
            /\ \A i, j \in 1..Len(cat_data[1]) :
                    cat_data[1][i].key = cat_data[1][j].key => i = j
    /\ top_supp # None /\ Len(top_supp[1]) < TopN =>
            SumOf(top_supp[1]) = Total(Matching)

\* C4: the district x GETM pivot has the sorted distinct district_name values
\* of the filtered table as row keys, its sorted distinct GETM values as column
\* keys, a cell for every pair of them, and in each cell the sum of
\* Beneficiary_Count over the rows with that pair, 0 when there is none.
C4_PivotDense ==
    hm_data1 # None =>
        LET p == hm_data1[1]
            rowKeys == {Matching[i]["district_name"] : i \in 1..Len(Matching)}
            colKeys == {Matching[i]["GETM"] : i \in 1..Len(Matching)}
        IN  /\ Range(p.index) = rowKeys
            /\ Range(p.columns) = colKeys
            /\ \A i \in 1..(Len(p.index)-1) : p.index[i] < p.index[i+1]
            /\ \A i \in 1..(Len(p.columns)-1) : p.columns[i] < p.columns[i+1]
            /\ DOMAIN p.cell = rowKeys \X colKeys
            /\ \A k \in rowKeys \X colKeys :
                    p.cell[k] = Total(SelectSeq(Matching,
                                    LAMBDA r : r["district_name"] = k[1] /\ r["GETM"] = k[2]))

\* a pivot over a narrowed selection: a district and a GETM value of the
\* loaded table that only unselected rows have are no keys of it
C4_Witness ==
    /\ hm_data1 # None
    /\ \E i \in 1..Len(df[1].rows) :
            /\ df[1].rows[i]["district_name"] \notin Range(hm_data1[1].index)
            /\ df[1].rows[i]["GETM"] \notin Range(hm_data1[1].columns)
    /\ \E k \in DOMAIN hm_data1[1].cell : hm_data1[1].cell[k] >= 1

\* C5: nlargest(10) returns min(10, |A|) entries of the aggregation A, each
\* with a sum at least that of every entry left out, and of entries of equal
\* sum at the cut the ones with the smaller key are the ones returned.
C5_TopNLargestFirstKey ==
    top_n # None =>
        LET kept == Range(top_n[1])
            rest == Range(agg) \ kept
        IN  /\ Len(top_n[1]) = (IF Len(agg) < TopN THEN Len(agg) ELSE TopN)
            /\ kept \subseteq Range(agg)
            /\ Cardinality(kept) = Len(top_n[1])
            /\ \A e \in kept, x \in rest :
                    /\ e.sum >= x.sum
                    /\ e.sum = x.sum => e.key < x.key

\* more entries than the cut keeps, and a tie across the cut
C5_Witness ==
    /\ top_n # None
    /\ Len(agg) > TopN
    /\ \E e \in Range(top_n[1]), x \in Range(agg) \ Range(top_n[1]) : e.sum = x.sum
    /\ \E e \in Range(top_n[1]), x \in Range(agg) \ Range(top_n[1]) : e.sum > x.sum

OptionalColumns == {"lcat", "GETM", "block_name", "categoryofsupport", "typeofsupport"}

Derivations ==
    {"top metrics", "state snapshot", "top-support bar", "category pie",
     "Sankey flow", "heatmap 1", "heatmap 2"}

\* the columns a derivation reads besides district_name and Beneficiary_Count
DependsOn(d) ==
    CASE d = "top metrics" -> {"lcat", "GETM"}
      [] d = "state snapshot" -> {"block_name"}
      [] d = "top-support bar" -> {"typeofsupport"}
      [] d = "category pie" -> {"categoryofsupport"}
      [] d = "Sankey flow" -> {"lcat", "GETM"}
      [] d = "heatmap 1" -> {"GETM"}
      [] d = "heatmap 2" -> {"typeofsupport"}

\* the derivation ran to its end in this run
Completed(d) ==
    CASE d = "top metrics" -> top_pillar # None
      [] d = "state snapshot" -> snapshot # None
      [] d = "top-support bar" -> top_supp # None
      [] d = "category pie" -> cat_data # None
      [] d = "Sankey flow" -> sankey # None
      [] d = "heatmap 1" -> hm_data1 # None
      [] d = "heatmap 2" -> hm_data2 # None

\* C6: when one of lcat, GETM, block_name, categoryofsupport, typeofsupport
\* is absent from the loaded table, a run with a selection ends with every
\* derivation that does not read that column executed to completion.
C6_AbsentColumnIsLocal ==
    \A c \in OptionalColumns :
        ( /\ df # None
          /\ df[1].cols = Columns \ {c}
          /\ selected_districts # None /\ selected_districts[1] # {}
          /\ pc \in {"done", "crashed", "stopped"} )
        => \A d \in Derivations : c \notin DependsOn(d) => Completed(d)

\* C7: when loading the dataset fails (file absent or malformed) the run ends
\* in the data-unavailable outcome (the error message and the stop of lines
\* 78-80) and no derivation is executed; a derivation is executed only after
\* a table was obtained.
C7_LoadFailureIsDataUnavailable ==
    /\ (csv.status # "ok" /\ pc # "load") =>
            /\ pc = "stopped"
            /\ "error: Data file 'dashboard_data.csv' not found." \in shown
            /\ df = None
            /\ Unset
    /\ (\E d \in Derivations : Completed(d)) => df # None

C10_MetricsOnNonEmptyTable ==
    (selected_districts # None /\ selected_districts[1] \subseteq Unique(df[1].rows, "district_name"))
    => /\ selected_districts[1] = {} => pc = "stopped" /\ total_int = None
       /\ pc = "metrics" =>
            /\ Matching # <<>>
            /\ \A d \in selected_districts[1] :
                    \E i \in 1..Len(Matching) : Matching[i]["district_name"] = d
            /\ \A c \in {"lcat", "GETM"} \cap df[1].cols :
                    \E i \in 1..Len(Matching) : Matching[i][c] # NaN
       /\ total_int # None => top_lcat # None /\ top_pillar # None

\* the top metrics were derived over a selection that leaves a district out
C10_Witness ==
    /\ pc = "snapshot"
    /\ top_lcat # None /\ top_lcat[1] # NA
    /\ \E i \in 1..Len(df[1].rows) : df[1].rows[i]["district_name"] \notin selected_districts[1]
====
